---- MODULE Spec2Model ----
(***************************************************************************)
(* Model of the FnBlog-Tracker bot: BlogMonitorBot.blog_monitor_loop and   *)
(* the helpers it calls (fetch_posts, get_post_id, build_embed,            *)
(* save_old_data, load_old_data), for the two scripts of the repository:   *)
(* main.py (two feeds, plain embeds) and test.py (three feeds, every       *)
(* message carries the PING_USER_ID mention).                              *)
(***************************************************************************)
EXTENDS Integers, Sequences, FiniteSets, TLC

\* Bound: the number of posts all feeds together return in one cycle.
MaxItems == 2

\* ------------------------------------------------------------------ inputs

\* The scripts of the repository.
Scripts == {"main", "test"}

\* The feeds a script polls, in the order the loop fetches and processes them.
Sources(s) ==
    IF s = "main" THEN <<"Competitive", "Normal">>
    ELSE <<"Competitive", "Normal", "Creative">>

\* The identity fields a post of the feed can carry ("" is a missing or empty field).
IdFields ==
    { [_id |-> "a", link |-> "", slug |-> ""],
      [_id |-> "", link |-> "b", slug |-> "a"],
      [_id |-> "", link |-> "", slug |-> ""] }

\* A post of a feed: its identity fields, its trending flag and its _metaTags
\* field, which is a string ("text") or JSON null ("null").
AllPosts ==
    { [_id |-> f._id, link |-> f.link, slug |-> f.slug, trending |-> t, _metaTags |-> m] :
        f \in IdFields, t \in BOOLEAN, m \in {"text", "null"} }

\* The posts the feeds return here. Of the posts without identity, which the
\* loop skips whatever their other fields are, one is enough; and one id whose
\* post can come with a null _metaTags is enough.
Posts ==
    { p \in AllPosts :
        ((p._id = "" /\ p.link = "" /\ p.slug = "") => (~p.trending /\ p._metaTags = "null"))
        /\ ((p._id = "" /\ p.link # "") => p._metaTags = "text") }

SeqsUpTo(n) == UNION { [1..k -> Posts] : k \in 0..n }

\* ------------------------------------------------------------------ helpers

\* Bound: the number of tokens of a title field.
MaxTitleLen == 2

\* A title is a string of tokens: a word, the phrase
\* "the competitive Fortnite team", or a blank.
Tokens == {"word", "phrase", " "}

\* The values of a title field; the empty string also stands for a field
\* that is missing or null.
TitleStrings == UNION {[1..n -> Tokens] : n \in 0..MaxTitleLen}

NoTitles == [title |-> <<>>, gridTitle |-> <<>>]

NoEmbed == [built |-> FALSE, title |-> <<>>]

\* The literal "No Title".
NoTitle == << "word", " ", "word" >>

\* Python's `a or b` on strings.
Or(a, b) == IF a # <<>> THEN a ELSE b

\* str.replace("the competitive Fortnite team", "")
replace(str) == SelectSeq(str, LAMBDA t : t # "phrase")

\* str.strip()
strip(str) ==
    LET I == {i \in 1..Len(str) : str[i] # " "}
    IN  IF I = {} THEN <<>>
        ELSE SubSeq(str, CHOOSE i \in I : \A k \in I : i <= k,
                         CHOOSE i \in I : \A k \in I : k <= i)

\* The title build_embed gives the embed.
embed_title(post) ==
    strip(replace(Or(post.title, Or(post.gridTitle, NoTitle))))

\* The posts a feed can return when every identity field ranges over empty
\* and two values.
IdentityPosts ==
    [_id : {"", "a", "b"}, link : {"", "a", "b"}, slug : {"", "a", "b"},
     trending : BOOLEAN, _metaTags : {"text", "null"}]

\* Variant: link is read before _id.
get_post_id_LinkFirst(post) ==
    IF post.link # "" THEN post.link
    ELSE IF post._id # "" THEN post._id
    ELSE post.slug

\* get_post_id: the first non-empty of _id, link, slug ("" when there is none).
get_post_id(post) ==
    IF post._id # "" THEN post._id
    ELSE IF post.link # "" THEN post.link
    ELSE post.slug

\* build_embed raises when _metaTags is null: extract_description evaluates
\* `search_key in meta_tags` on None.
build_embed_raises(post) == post._metaTags = "null"

\* Variant: the stored flag is compared with == instead of !=.
IsNewOrUpdated_SameFlag(data, post_id, trending) ==
    \/ post_id \notin DOMAIN data
    \/ data[post_id] = trending

\* The condition of the loop's if: the post is new or its trending flag differs.
IsNewOrUpdated(data, post_id, trending) ==
    \/ post_id \notin DOMAIN data
    \/ data[post_id] # trending

\* Variant: no script passes content to send.
MessageContent_EmbedOnly(s) == "none"

\* The content of a message: test.py mentions PING_USER_ID on every send,
\* main.py sends the embed alone.
MessageContent(s) == IF s = "test" THEN "PING_USER_ID" ELSE "none"

\* Variant: the assignment replaces the whole dict.
SetEntry_Replace(data, post_id, trending) == [k \in {post_id} |-> trending]

\* Variant: an entry is kept only while its post is trending.
SetEntry_TrendingOnly(data, post_id, trending) ==
    IF trending
    THEN [k \in DOMAIN data \cup {post_id} |-> IF k = post_id THEN TRUE ELSE data[k]]
    ELSE [k \in DOMAIN data \ {post_id} |-> data[k]]

\* self.old_data[post_id] = {"trending": trending}
SetEntry(data, post_id, trending) ==
    [k \in DOMAIN data \cup {post_id} |-> IF k = post_id THEN trending ELSE data[k]]

EmptyData == [k \in {} |-> TRUE]

NoFile == [state |-> "absent", data |-> EmptyData]

\* load_old_data: the content of a readable file, {} when it is absent or corrupt.
load_old_data(f) == IF f.state = "valid" THEN f.data ELSE EmptyData

\* Variant: the file is opened for appending, and a file that held data no
\* longer parses.
save_old_data_outcomes_Append(f, data) ==
    { [ok |-> TRUE,
       file |-> IF f.state = "absent" THEN [state |-> "valid", data |-> data]
                ELSE [state |-> "corrupt", data |-> EmptyData]],
      [ok |-> FALSE, file |-> f] }

\* save_old_data: the file holds the data; or open() fails and the file is as
\* before; or the write fails after open() truncated the file.
save_old_data_outcomes(f, data) ==
    { [ok |-> TRUE, file |-> [state |-> "valid", data |-> data]],
      [ok |-> FALSE, file |-> f],
      [ok |-> FALSE, file |-> [state |-> "corrupt", data |-> EmptyData]] }

\* fetch_posts: the blogList of the response, [] on any exception.
fetch_posts_outcomes(n) ==
    { [failed |-> TRUE, posts |-> <<>>] } \cup
    { [failed |-> FALSE, posts |-> l] : l \in SeqsUpTo(n) }

\* ------------------------------------------------------------------ state

VARIABLES
    script,       \* which script of the repository runs
    channel,      \* self.channel: "none" (None) or "found"
    pc,           \* position of the loop task
    srcIdx,       \* index in Sources(script) of the fetch in flight
    posts,        \* the list each feed returned at its last fetch
    fetchFailed,  \* whether the last fetch of each feed raised inside fetch_posts
    detAt,        \* <<source index, position>> of the post the loop processes next
    old_data,     \* self.old_data: post id -> trending flag
    new_embeds,   \* the local list new_embeds of the started cycle
    sendIdx,      \* index in new_embeds of the message being delivered
    file,         \* DATA_FILE
    sentLog,      \* history: the send attempts of the cycle, in order
    inflight,     \* history: number of channel.send calls awaiting completion
    saves,        \* history: the results of the save_old_data calls of the cycle
    startData,    \* history: self.old_data when the cycle started
    hasPrev,      \* history: this process has run a cycle before
    samePrev,     \* history: in this cycle every feed returns what it returned in the previous one
    lastDet,      \* history: what the loop did with the last post it processed
    flushed,      \* history: ids loaded from the file, or queued in a cycle whose
                  \* save_old_data succeeded
    written,      \* history: ids loaded from the file, or whose entry a cycle of
                  \* this process wrote
    loops,        \* number of live tasks of blog_monitor_loop
    started,      \* indices in Sources(script) of the fetches the cycle has submitted
    sleeps,       \* history: number of asyncio.sleep calls of the cycle that returned
    unsent,       \* history: ids whose entry in self.old_data was written for a
                  \* message that had no send attempt
    tracked,      \* whether the behaviour records the history unsent
    titlePost,    \* the title fields of the post handed to build_embed
    embed         \* the title of the embed build_embed returned, once it has

vars ==
    << script, channel, pc, srcIdx, posts, fetchFailed, detAt, old_data, new_embeds,
       sendIdx, file, sentLog, inflight, saves, startData, hasPrev, samePrev, lastDet,
       flushed, written, loops, started, sleeps, unsent, tracked,
       titlePost, embed >>

\* Positions of the loop task at which it runs synchronous code: no other
\* coroutine of the event loop runs until it reaches its next await.
SyncPc == {"detecting", "delivering", "persisting"}

N == Len(Sources(script))

SrcSet == { Sources(script)[i] : i \in 1..N }

NoDet ==
    [cls |-> "none", post_id |-> "", trending |-> FALSE, had |-> FALSE, prev |-> FALSE,
     wrote |-> FALSE, queued |-> FALSE]

\* Number of posts the feeds before index i returned in this cycle.
Fetched(ps, i) ==
    LET L(j) == IF j < i THEN Len(ps[Sources(script)[j]]) ELSE 0
    IN  L(1) + L(2) + (IF N >= 3 THEN L(3) ELSE 0)

\* The first post at or after feed s, <<0, 0>> when there is none.
FirstFrom(ps, s) ==
    LET cand == { j \in s..N : Len(ps[Sources(script)[j]]) > 0 }
    IN  IF cand = {} THEN <<0, 0>>
        ELSE <<CHOOSE j \in cand : \A k \in cand : j <= k, 1>>

\* The post after <<s, p>> in processing order.
NextAt(ps, s, p) ==
    IF p < Len(ps[Sources(script)[s]]) THEN <<s, p + 1>> ELSE FirstFrom(ps, s + 1)

\* The state after BlogMonitorBot.__init__, whatever the script.
InitBot ==
    /\ channel = "none"
    /\ pc = "unstarted"
    /\ srcIdx = 0
    /\ posts = [s \in SrcSet |-> <<>>]
    /\ fetchFailed = [s \in SrcSet |-> FALSE]
    /\ detAt = <<0, 0>>
    /\ file = NoFile
    /\ old_data = load_old_data(file)
    /\ new_embeds = <<>>
    /\ sendIdx = 0
    /\ sentLog = <<>>
    /\ inflight = 0
    /\ saves = <<>>
    /\ startData = old_data
    /\ hasPrev = FALSE
    /\ samePrev = FALSE
    /\ lastDet = NoDet
    /\ flushed = {}
    /\ written = {}
    /\ loops = 0
    /\ started = {}
    /\ sleeps = 0
    /\ unsent = {}
    /\ embed = NoEmbed

\* The bot of main.py.
Init ==
    /\ script = "main"
    /\ tracked = FALSE
    /\ titlePost = NoTitles
    /\ InitBot

\* The bot of either script.
InitScripts ==
    /\ script \in Scripts
    /\ tracked = FALSE
    /\ titlePost = NoTitles
    /\ InitBot

\* The bot of main.py, with the history unsent recorded.
InitTracked ==
    /\ script = "main"
    /\ tracked = TRUE
    /\ titlePost = NoTitles
    /\ InitBot

\* build_embed is handed a post with any title fields.
InitTitle ==
    /\ script = "main"
    /\ tracked = FALSE
    /\ titlePost \in [title : TitleStrings, gridTitle : TitleStrings]
    /\ InitBot

\* The loop has fetched one post, with any identity fields, from the first
\* feed and nothing from the others, and is about to detect.
InitIdentity ==
    /\ script = "main"
    /\ tracked = FALSE
    /\ titlePost = NoTitles
    /\ channel \in {"none", "found"}
    /\ pc = "detecting"
    /\ srcIdx = 0
    /\ \E p \in IdentityPosts :
           posts = [s \in SrcSet |-> IF s = Sources(script)[1] THEN << p >> ELSE <<>>]
    /\ fetchFailed = [s \in SrcSet |-> FALSE]
    /\ detAt = <<1, 1>>
    /\ file = NoFile
    /\ old_data = load_old_data(file)
    /\ new_embeds = <<>>
    /\ sendIdx = 0
    /\ sentLog = <<>>
    /\ inflight = 0
    /\ saves = <<>>
    /\ startData = old_data
    /\ hasPrev = TRUE
    /\ samePrev = FALSE
    /\ lastDet = NoDet
    /\ flushed = {}
    /\ written = {}
    /\ loops = 1
    /\ started = 1..N
    /\ sleeps = 0
    /\ unsent = {}
    /\ embed = NoEmbed

\* The history unsent after a step that leaves it at ids.
Record(ids) == IF tracked THEN ids ELSE unsent

\* Variant: start() launches a task whether or not one is running.
StartLoop_Again(n) == n + 1

\* blog_monitor_loop.start(): launches the task of the loop, and raises
\* RuntimeError when the task is launched and not done.
StartLoop(n) == IF n = 0 THEN 1 ELSE n

\* Variant: the fetches of all feeds are submitted together.
FirstFetches_All(n) == 1..n

\* The fetches submitted once the iteration has reached its first await: the
\* loop awaits the fetch of the first feed before it submits the next.
FirstFetches(n) == {1}

\* on_ready: resolves the channel and starts the loop; start() raises
\* RuntimeError when the loop task is running, and the loop goes on.
OnReady ==
    /\ pc \notin SyncPc
    /\ \E c \in {"none", "found"} : channel' = c
    /\ pc' = IF pc \in {"unstarted", "failed"} THEN "idle" ELSE pc
    /\ loops' = StartLoop(loops)
    /\ UNCHANGED << script, tracked, titlePost, embed, srcIdx, posts, fetchFailed, detAt, old_data, new_embeds,
                    sendIdx, file, sentLog, inflight, saves, startData, hasPrev,
                    samePrev, lastDet, flushed, written, started, sleeps, unsent >>

\* An iteration of blog_monitor_loop starts and submits the first fetch.
Tick ==
    /\ pc = "idle"
    /\ pc' = "fetching"
    /\ srcIdx' = 1
    /\ new_embeds' = <<>>
    /\ sendIdx' = 0
    /\ detAt' = <<0, 0>>
    /\ sentLog' = <<>>
    /\ saves' = <<>>
    /\ startData' = old_data
    /\ hasPrev' = TRUE
    /\ lastDet' = NoDet
    /\ fetchFailed' = [s \in SrcSet |-> FALSE]
    /\ \E same \in BOOLEAN :
        /\ same => (hasPrev /\ \A s \in SrcSet : ~fetchFailed[s])
        /\ samePrev' = same
        /\ posts' = IF same THEN posts ELSE [s \in SrcSet |-> <<>>]
    /\ started' = FirstFetches(N)
    /\ sleeps' = 0
    /\ UNCHANGED << script, tracked, titlePost, embed, channel, old_data, file, inflight, flushed, written, loops,
                    unsent >>

\* What the feed src answers to the fetch in flight: in a cycle of unchanged
\* feeds the list it returned in the previous cycle, otherwise any outcome of
\* fetch_posts within the bound.
FeedAnswers(src) ==
    IF samePrev THEN { [failed |-> FALSE, posts |-> posts[src]] }
    ELSE fetch_posts_outcomes(MaxItems - Fetched(posts, srcIdx))

\* Variant: save_old_data is called after the if, not inside it.
AfterDetect_AlwaysSave(embeds) == IF embeds # <<>> THEN "delivering" ELSE "persisting"

\* Where the loop goes once detection is over: `if new_embeds:`.
AfterDetect(embeds) == IF embeds # <<>> THEN "delivering" ELSE "idle"

\* The fetch in flight returns; the loop submits the next fetch, or goes on
\* to process the posts.
FetchEnd ==
    /\ pc = "fetching"
    /\ \E r \in FeedAnswers(Sources(script)[srcIdx]) :
        LET src == Sources(script)[srcIdx]
            ps  == [posts EXCEPT ![src] = r.posts]
        IN  /\ posts' = ps
            /\ fetchFailed' = [fetchFailed EXCEPT ![src] = r.failed]
            /\ IF srcIdx < N
               THEN /\ srcIdx' = srcIdx + 1
                    /\ started' = started \cup {srcIdx + 1}
                    /\ UNCHANGED << pc, detAt >>
               ELSE /\ srcIdx' = 0
                    /\ UNCHANGED started
                    /\ detAt' = FirstFrom(ps, 1)
                    /\ pc' = IF FirstFrom(ps, 1) # <<0, 0>> THEN "detecting"
                             ELSE AfterDetect(new_embeds)
    /\ UNCHANGED << script, tracked, titlePost, embed, channel, old_data, new_embeds, sendIdx, file, sentLog,
                    inflight, saves, startData, hasPrev, samePrev, lastDet, flushed,
                    written, loops, sleeps, unsent >>

\* One iteration of a `for post in ..._posts` loop: the post at detAt.
DetectStep ==
    /\ pc = "detecting"
    /\ LET src      == Sources(script)[detAt[1]]
           post     == posts[src][detAt[2]]
           post_id  == get_post_id(post)
           trending == post.trending
           next     == NextAt(posts, detAt[1], detAt[2])
           isNew    == post_id # "" /\ IsNewOrUpdated(old_data, post_id, trending)
           cls      == IF post_id = "" THEN "noid"
                       ELSE IF ~isNew THEN "unchanged"
                       ELSE IF build_embed_raises(post) THEN "raised"
                       ELSE IF post_id \notin DOMAIN old_data THEN "unseen"
                       ELSE "changed"
           embeds   == IF cls \in {"unseen", "changed"}
                       THEN Append(new_embeds,
                                   [post_id |-> post_id, trending |-> trending,
                                    category |-> src, at |-> detAt])
                       ELSE new_embeds
           data     == IF cls \in {"unseen", "changed"}
                       THEN SetEntry(old_data, post_id, trending)
                       ELSE old_data
       IN  /\ lastDet' = [cls |-> cls, post_id |-> post_id, trending |-> trending,
                          had |-> post_id \in DOMAIN old_data,
                          prev |-> IF post_id \in DOMAIN old_data THEN old_data[post_id]
                                   ELSE FALSE,
                          wrote |-> data # old_data, queued |-> embeds # new_embeds]
           /\ new_embeds' = embeds
           /\ old_data' = data
           /\ written' = IF cls \in {"unseen", "changed"} THEN written \cup {post_id}
                         ELSE written
           /\ unsent' = IF cls \in {"unseen", "changed"}
                        THEN Record(unsent \cup {post_id})
                        ELSE unsent
           /\ IF cls = "raised"
              THEN /\ pc' = "failed"
                   /\ loops' = loops - 1
                   /\ UNCHANGED << detAt, sendIdx >>
              ELSE /\ detAt' = next
                   /\ UNCHANGED loops
                   /\ pc' = IF next # <<0, 0>> THEN "detecting" ELSE AfterDetect(embeds)
                   /\ sendIdx' = IF next = <<0, 0>> /\ embeds # <<>> THEN 1 ELSE sendIdx
    /\ UNCHANGED << script, tracked, titlePost, embed, channel, srcIdx, posts, fetchFailed, file, sentLog, inflight,
                    saves, startData, hasPrev, samePrev, flushed, started, sleeps >>

\* A send attempt as the history records it.
Attempt(e, content, result) ==
    [post_id |-> e.post_id, trending |-> e.trending, category |-> e.category,
     at |-> e.at, content |-> content, result |-> result]

\* Where the loop goes after the message at index i: the next message, or
\* save_old_data once the for loop is over.
AfterSend(i, embeds) == IF i < Len(embeds) THEN "delivering" ELSE "persisting"

\* Variant: the try surrounds the for loop, so an exception leaves it.
AfterSendError_Abort(i, embeds) == "persisting"

\* Where the loop goes when the send of the message at index i raised: the
\* except clause logs the error inside the for loop, which goes on.
AfterSendError(i, embeds) == AfterSend(i, embeds)

\* Variant: the loop takes the messages from the end of the list.
EmbedAt_Reversed(embeds, i) == embeds[Len(embeds) - i + 1]

\* The element the i-th iteration of `for embed, delay in new_embeds` takes.
EmbedAt(embeds, i) == embeds[i]

\* The ids left without a send attempt once the message at index i had its
\* attempt.
AfterAttempt(ids, embeds, i) ==
    IF \A j \in (i + 1)..Len(embeds) : embeds[j].post_id # embeds[i].post_id
    THEN ids \ {embeds[i].post_id}
    ELSE ids

\* The loop reaches `await self.channel.send(...)`: with self.channel None the
\* attribute access raises and the except clause logs it; otherwise the send
\* is in flight.
Deliver ==
    /\ pc = "delivering"
    /\ IF channel = "none"
       THEN /\ sentLog' = Append(sentLog, Attempt(EmbedAt(new_embeds, sendIdx), "none", "nochannel"))
            /\ pc' = AfterSendError(sendIdx, new_embeds)
            /\ sendIdx' = IF sendIdx < Len(new_embeds) THEN sendIdx + 1 ELSE sendIdx
            /\ unsent' = Record(AfterAttempt(unsent, new_embeds, sendIdx))
            /\ UNCHANGED inflight
       ELSE /\ pc' = "sending"
            /\ inflight' = inflight + 1
            /\ UNCHANGED << sentLog, sendIdx, unsent >>
    /\ UNCHANGED << script, tracked, titlePost, embed, channel, srcIdx, posts, fetchFailed, detAt, old_data,
                    new_embeds, file, saves, startData, hasPrev, samePrev, lastDet,
                    flushed, written, loops, started, sleeps >>

\* The send in flight completes: on success the loop sleeps MESSAGE_DELAY, on
\* an exception the except clause logs it and the for loop goes on.
SendEnd ==
    /\ pc = "sending"
    /\ inflight' = inflight - 1
    /\ \E ok \in BOOLEAN :
        /\ sentLog' = Append(sentLog,
                             Attempt(EmbedAt(new_embeds, sendIdx), MessageContent(script),
                                     IF ok THEN "sent" ELSE "failed"))
        /\ IF ok
           THEN /\ pc' = "sleeping"
                /\ UNCHANGED sendIdx
           ELSE /\ pc' = AfterSendError(sendIdx, new_embeds)
                /\ sendIdx' = IF sendIdx < Len(new_embeds) THEN sendIdx + 1 ELSE sendIdx
    /\ unsent' = Record(AfterAttempt(unsent, new_embeds, sendIdx))
    /\ UNCHANGED << script, tracked, titlePost, embed, channel, srcIdx, posts, fetchFailed, detAt, old_data,
                    new_embeds, file, saves, startData, hasPrev, samePrev, lastDet,
                    flushed, written, loops, started, sleeps >>

\* asyncio.sleep(delay) returns.
SleepEnd ==
    /\ pc = "sleeping"
    /\ pc' = AfterSend(sendIdx, new_embeds)
    /\ sendIdx' = IF sendIdx < Len(new_embeds) THEN sendIdx + 1 ELSE sendIdx
    /\ sleeps' = sleeps + 1
    /\ UNCHANGED << script, tracked, titlePost, embed, channel, srcIdx, posts, fetchFailed, detAt, old_data,
                    new_embeds, file, sentLog, inflight, saves, startData, hasPrev,
                    samePrev, lastDet, flushed, written, loops, started, unsent >>

\* save_old_data(self.old_data) after the for loop; the iteration is over.
Save ==
    /\ pc = "persisting"
    /\ \E r \in save_old_data_outcomes(file, old_data) :
        /\ file' = r.file
        /\ saves' = Append(saves, r.ok)
        /\ flushed' = IF r.ok
                      THEN flushed \cup { new_embeds[i].post_id : i \in 1..Len(new_embeds) }
                      ELSE flushed
    /\ pc' = "idle"
    /\ UNCHANGED << script, tracked, titlePost, embed, channel, srcIdx, posts, fetchFailed, detAt, old_data,
                    new_embeds, sendIdx, sentLog, inflight, startData, hasPrev,
                    samePrev, lastDet, written, loops, started, sleeps, unsent >>

\* The process is stopped and started again: BlogMonitorBot.__init__ loads
\* the file.
Restart ==
    /\ pc # "unstarted"
    /\ channel' = "none"
    /\ pc' = "unstarted"
    /\ srcIdx' = 0
    /\ posts' = [s \in SrcSet |-> <<>>]
    /\ fetchFailed' = [s \in SrcSet |-> FALSE]
    /\ detAt' = <<0, 0>>
    /\ old_data' = load_old_data(file)
    /\ new_embeds' = <<>>
    /\ sendIdx' = 0
    /\ sentLog' = <<>>
    /\ inflight' = 0
    /\ saves' = <<>>
    /\ startData' = load_old_data(file)
    /\ hasPrev' = FALSE
    /\ samePrev' = FALSE
    /\ lastDet' = NoDet
    /\ flushed' = DOMAIN load_old_data(file)
    /\ written' = DOMAIN load_old_data(file)
    /\ loops' = 0
    /\ started' = {}
    /\ sleeps' = 0
    /\ unsent' = {}
    /\ UNCHANGED << script, tracked, titlePost, embed, file >>

\* build_embed composes the title of the embed from the post's title fields;
\* nothing else of the bot is touched.
BuildTitle ==
    /\ ~embed.built
    /\ embed' = [built |-> TRUE, title |-> embed_title(titlePost)]
    /\ UNCHANGED << script, channel, pc, srcIdx, posts, fetchFailed, detAt, old_data,
                    new_embeds, sendIdx, file, sentLog, inflight, saves, startData,
                    hasPrev, samePrev, lastDet, flushed, written, loops, started,
                    sleeps, unsent, tracked, titlePost >>

Next ==
    \/ OnReady
    \/ Tick
    \/ FetchEnd
    \/ DetectStep
    \/ Deliver
    \/ SendEnd
    \/ SleepEnd
    \/ Save
    \/ Restart

\* The steps of one iteration once the feeds have answered.
NextIdentity ==
    \/ DetectStep
    \/ Deliver
    \/ SendEnd
    \/ SleepEnd
    \/ Save

Spec == Init /\ [][Next]_vars

SpecTracked == InitTracked /\ [][Next]_vars

SpecIdentity == InitIdentity /\ [][NextIdentity]_vars

SpecTitle == InitTitle /\ [][BuildTitle]_vars

SpecScripts == InitScripts /\ [][Next]_vars

TypeOK ==
    /\ pc \in {"unstarted", "idle", "fetching", "detecting", "delivering", "sending",
               "sleeping", "persisting", "failed"}
    /\ inflight \in 0..1
    /\ Len(new_embeds) <= MaxItems

\* ------------------------------------------------------------------ claims

\* The ids the posts of the feeds resolve to.
Ids == { get_post_id(p) : p \in Posts } \ {""}

\* The positions of the posts the started (or last) cycle fetched.
Positions ==
    { at \in (1..N) \X (1..MaxItems) : at[2] <= Len(posts[Sources(script)[at[1]]]) }

PostAt(at) == posts[Sources(script)[at[1]]][at[2]]

\* No id occurs in the fetched lists with two different trending flags.
NoConflict ==
    \A x, y \in Positions :
        (get_post_id(PostAt(x)) = get_post_id(PostAt(y)) /\ get_post_id(PostAt(x)) # "")
            => PostAt(x).trending = PostAt(y).trending

\* The cycle sent nothing, left the store alone and did not write the file.
QuietCycle ==
    /\ sentLog = <<>>
    /\ new_embeds = <<>>
    /\ pc \notin {"delivering", "sending", "sleeping", "persisting"}
    /\ old_data = startData
    /\ saves = <<>>

\* C1 as stated: a cycle in which every feed returns the list of the previous
\* cycle sends no notification, leaves the store unchanged and writes no file.
C1_Original == samePrev => QuietCycle

\* The part of C1 that holds: a cycle in which every feed returns the list of
\* the previous cycle, and in which no id occurs with two different trending
\* flags, sends no notification, leaves the store unchanged and writes no file.
RepeatedCycleIsQuiet == (samePrev /\ NoConflict) => QuietCycle

RepeatedCycleWitness ==
    /\ samePrev
    /\ NoConflict
    /\ pc = "idle"
    /\ lastDet.cls = "unchanged"
    /\ Cardinality(Positions) = MaxItems

\* The send attempts of the cycle that reached channel.send.
Msgs == SelectSeq(sentLog, LAMBDA m : m.result # "nochannel")

\* C2 as stated: of the messages of a cycle, the first and only the first
\* carries a mention.
C2_Original == \A i \in 1..Len(Msgs) : (Msgs[i].content # "none") <=> (i = 1)

\* C2 amended: every message of a cycle carries the same content, whatever its
\* position and source category: no mention in main.py, the PING_USER_ID
\* mention in test.py.
C2_SameContentOnEveryMessage ==
    \A i \in 1..Len(Msgs) :
        /\ script = "main" => Msgs[i].content = "none"
        /\ script = "test" => Msgs[i].content = "PING_USER_ID"

C2_Witness ==
    /\ script = "test"
    /\ Len(Msgs) = 2
    /\ Msgs[1].result = "sent"
    /\ Msgs[2].result = "sent"
    /\ Msgs[1].category # Msgs[2].category

\* C3 as stated: no failure inside a cycle propagates out of blog_monitor_loop
\* and stops the loop task.
C3_NoFailureStopsLoop == pc # "failed"

DeliveryOver == pc = "persisting" \/ (pc = "idle" /\ saves # <<>>)

\* The entry of new_embeds that decides the stored flag of id: its last one.
LastQueued(id) ==
    LET I == { i \in 1..Len(new_embeds) : new_embeds[i].post_id = id }
    IN  new_embeds[CHOOSE i \in I : \A j \in I : j <= i]

FirstQueued(id) ==
    LET I == { i \in 1..Len(new_embeds) : new_embeds[i].post_id = id }
    IN  new_embeds[CHOOSE i \in I : \A j \in I : i <= j]

QueuedIds == { new_embeds[i].post_id : i \in 1..Len(new_embeds) }

\* C5: whatever sends fail, every queued item gets exactly one send attempt, in
\* queue order; the entries written at detection stay in the store; and an id
\* is queued only if, when the cycle started, it had no entry or an entry with
\* another flag than the one queued first (so a failed send is not repeated
\* until the flag changes).
C5_SendFailureIsIsolated ==
    /\ pc \in {"delivering", "sending"} => Len(sentLog) = sendIdx - 1
    /\ pc = "sleeping" => Len(sentLog) = sendIdx
    /\ DeliveryOver => Len(sentLog) = Len(new_embeds)
    /\ Len(sentLog) <= Len(new_embeds)
    /\ \A i \in 1..Len(sentLog) :
        /\ sentLog[i].at = new_embeds[i].at
        /\ sentLog[i].post_id = new_embeds[i].post_id
        /\ sentLog[i].trending = new_embeds[i].trending
    /\ \A id \in QueuedIds :
        /\ id \in DOMAIN old_data
        /\ old_data[id] = LastQueued(id).trending
        /\ id \in DOMAIN startData => startData[id] # FirstQueued(id).trending

C5_Witness ==
    /\ DeliveryOver
    /\ Len(sentLog) = 2
    /\ sentLog[1].result = "failed"
    /\ sentLog[2].result = "sent"

\* The three classes of the change detector.
Classify(data, post_id, trending) ==
    IF post_id \notin DOMAIN data THEN "unseen"
    ELSE IF data[post_id] # trending THEN "changed"
    ELSE "unchanged"

\* The store as the last processed post found it, as far as its id goes.
ClassBefore ==
    IF ~lastDet.had THEN "unseen"
    ELSE IF lastDet.prev # lastDet.trending THEN "changed"
    ELSE "unchanged"

\* C6: the loop treats a post with an id as its class says: unseen and changed
\* posts are queued and written, an unchanged post is neither queued nor
\* written, and right after a post was written the same post is unchanged.
C6_ClassifyThenUnchanged ==
    /\ lastDet.cls \in {"unseen", "changed", "unchanged"} =>
        /\ lastDet.post_id # ""
        /\ lastDet.cls = ClassBefore
    /\ lastDet.cls \in {"unseen", "changed"} =>
        /\ lastDet.wrote
        /\ lastDet.queued
        /\ Classify(old_data, lastDet.post_id, lastDet.trending) = "unchanged"
    /\ lastDet.cls = "unchanged" =>
        /\ ~lastDet.wrote
        /\ ~lastDet.queued
        /\ Classify(old_data, lastDet.post_id, lastDet.trending) = "unchanged"
    /\ lastDet.cls = "raised" => ClassBefore \in {"unseen", "changed"}
    /\ lastDet.cls = "noid" => (lastDet.post_id = "" /\ ~lastDet.wrote /\ ~lastDet.queued)

C6_Witness ==
    /\ lastDet.cls = "unchanged"
    /\ lastDet.post_id \in QueuedIds
    /\ LastQueued(lastDet.post_id).trending = lastDet.trending
    /\ pc = "delivering"

\* The iteration of the loop is over: it returned, or it raised.
CycleOver == hasPrev /\ pc \in {"idle", "failed"}

\* The positions at which the cycle fetched id.
Occurrences(id) == { at \in Positions : get_post_id(PostAt(at)) = id }

\* C7 as stated: an id stored with flag T and fetched once, with flag not T, is
\* queued exactly once and its entry becomes not T.
C7_FlagChangeQueuedOnce ==
    CycleOver =>
        \A id \in DOMAIN startData :
            (/\ Cardinality(Occurrences(id)) = 1
             /\ \A at \in Occurrences(id) : PostAt(at).trending # startData[id])
                => /\ Cardinality({ i \in 1..Len(new_embeds) : new_embeds[i].post_id = id }) = 1
                   /\ old_data[id] # startData[id]

\* at x comes before at y in processing order.
Before(x, y) == x[1] < y[1] \/ (x[1] = y[1] /\ x[2] < y[2])

\* C8: the send attempts of a cycle follow the processing order (feed order,
\* then the order of the fetched list), each message is of the feed it was
\* found in, and a send starts only when every earlier one has ended.
C8_SendsInProcessingOrder ==
    /\ \A i, j \in 1..Len(sentLog) : i < j => Before(sentLog[i].at, sentLog[j].at)
    /\ \A i \in 1..Len(sentLog) :
        /\ sentLog[i].at \in Positions
        /\ sentLog[i].category = Sources(script)[sentLog[i].at[1]]
        /\ sentLog[i].post_id = get_post_id(PostAt(sentLog[i].at))
    /\ inflight \in {0, 1}
    /\ inflight = 1 <=> pc = "sending"
    /\ pc = "sending" => Len(sentLog) = sendIdx - 1

C8_Witness ==
    /\ Len(sentLog) = 2
    /\ sentLog[1].category = "Competitive"
    /\ sentLog[2].category = "Normal"
    /\ sentLog[1].post_id = "b"
    /\ sentLog[2].post_id = "a"

\* C9 as stated: in a cycle in which a fetch failed, the failed feed counts as
\* empty, every post with an id of the other feeds is detected and every
\* queued message gets its send attempt, and the entries of the ids no feed
\* returned are as before.
C9_FailedFetchIsIsolated ==
    (CycleOver /\ \E s \in SrcSet : fetchFailed[s]) =>
        /\ \A s \in SrcSet : fetchFailed[s] => posts[s] = <<>>
        /\ \A at \in Positions :
            get_post_id(PostAt(at)) # "" => get_post_id(PostAt(at)) \in DOMAIN old_data
        /\ Len(sentLog) = Len(new_embeds)
        /\ \A id \in Ids :
            Occurrences(id) = {} =>
                /\ id \in DOMAIN old_data <=> id \in DOMAIN startData
                /\ id \in DOMAIN old_data => old_data[id] = startData[id]

\* C10: save_old_data runs at most once in a cycle, only after the for loop
\* has attempted every queued message, and only when the cycle queued one.
C10_OneSaveAfterDelivery ==
    /\ Len(saves) <= 1
    /\ (pc = "persisting" \/ saves # <<>>) =>
        /\ new_embeds # <<>>
        /\ Len(sentLog) = Len(new_embeds)
    /\ saves # <<>> => pc = "idle"
    /\ pc = "persisting" => saves = <<>>

C10_Witness ==
    /\ saves = <<TRUE>>
    /\ Len(sentLog) = 2
    /\ file.state = "valid"
    /\ file.data = old_data

\* ---- C11

\* C11: when the loop is about to send, is sending or is about to save, and
\* once it has saved, the delay has elapsed once for every send attempt the
\* cycle has made, whatever the attempt's outcome.
C11_DelayAfterEverySend ==
    (pc \in {"delivering", "sending", "persisting"} \/ saves # <<>>) =>
        sleeps = Len(sentLog)

\* ---- C12

\* C12: a save that failed leaves the loop idle, ready for its next
\* iteration, and the store holding every entry the cycle wrote; a save that
\* succeeded leaves a file whose content is the whole store.
C12_SaveFailureKeepsStore ==
    /\ saves = << FALSE >> =>
        /\ pc = "idle"
        /\ loops = 1
        /\ \A id \in DOMAIN startData \cup QueuedIds : id \in DOMAIN old_data
        /\ \A id \in QueuedIds : old_data[id] = LastQueued(id).trending
    /\ saves = << TRUE >> =>
        /\ file.state = "valid"
        /\ file.data = old_data

C12_Witness ==
    /\ saves = << FALSE >>
    /\ pc = "idle"
    /\ file.state = "corrupt"
    /\ Len(new_embeds) = 2
    /\ QueuedIds \subseteq DOMAIN old_data

\* ---- C13

\* The first non-empty string of a sequence, "" when there is none.
FirstNonEmpty(vals) ==
    LET I == { i \in 1..Len(vals) : vals[i] # "" }
    IN  IF I = {} THEN "" ELSE vals[CHOOSE i \in I : \A k \in I : i <= k]

IdentityOf(post) == FirstNonEmpty(<< post._id, post.link, post.slug >>)

\* C13: every queued message carries the first non-empty of its post's _id,
\* link and slug, and once detection is over every post with such a value has
\* its entry under it; a post with none of the three is not queued, writes
\* no entry and does not stop the loop.
C13_IdentityIsFirstNonEmpty ==
    /\ \A i \in 1..Len(new_embeds) :
        /\ new_embeds[i].post_id = IdentityOf(PostAt(new_embeds[i].at))
        /\ new_embeds[i].post_id # ""
    /\ "" \notin DOMAIN old_data
    /\ DOMAIN old_data = DOMAIN startData \cup QueuedIds
    /\ pc \in {"delivering", "sending", "sleeping", "persisting", "idle"} =>
        \A at \in Positions :
            IdentityOf(PostAt(at)) # "" => IdentityOf(PostAt(at)) \in DOMAIN old_data
    /\ lastDet.cls = "noid" =>
        /\ ~lastDet.wrote
        /\ ~lastDet.queued
        /\ pc # "failed"

C13_Witness ==
    /\ lastDet.cls = "noid"
    /\ PostAt(<<1, 1>>)._metaTags = "null"
    /\ PostAt(<<1, 1>>).trending
    /\ pc = "idle"
    /\ old_data = startData
    /\ new_embeds = <<>>
    /\ sentLog = <<>>

\* ---- C14

\* C14: after a save that succeeded, the file holds no entry that was
\* written for a message that had no send attempt.
C14_DurableOnlyAfterAttempt ==
    saves = << TRUE >> => \A id \in DOMAIN file.data : id \notin unsent

\* ---- C15

\* C15 as stated: while the cycle is fetching, the fetches of all its feeds
\* have been submitted.
C15_Original == pc = "fetching" => started = 1..N

\* C15, amended: while the cycle is fetching, the fetches submitted are those
\* of the feeds up to the one in flight, so a fetch is submitted only when the
\* fetches before it are over; and detection and what follows it run only
\* when every fetch was submitted and is over.
C15_FetchesOneAfterAnother ==
    /\ pc = "fetching" =>
        /\ srcIdx \in 1..N
        /\ started = 1..srcIdx
    /\ pc \in {"detecting", "delivering", "sending", "sleeping", "persisting"} =>
        /\ srcIdx = 0
        /\ started = 1..N

C15_Witness ==
    /\ pc = "fetching"
    /\ srcIdx = 2
    /\ started = {1, 2}
    /\ Len(posts[Sources(script)[1]]) > 0

\* ---- C16

\* C16: while the channel is unresolved the loop is not running: it is not
\* idle and no cycle fetches, detects, sends or saves.
C16_NoCycleWithoutChannel == channel = "none" => pc \in {"unstarted", "failed"}

\* ---- C17

C18_TitleNeverEmpty == embed.built => embed.title # <<>>

\* ---- C19

\* Number of messages the cycle queued for id.
QueuedFor(id) == Cardinality({ i \in 1..Len(new_embeds) : new_embeds[i].post_id = id })

\* C19: once a cycle is over, an id that occurred more than once in its
\* feeds, each time with the same flag, was queued once when the store had no
\* entry for it at the start of the cycle, and not at all when the store had
\* it with that flag.
C19_DuplicateQueuedOnce ==
    CycleOver =>
        \A id \in Ids :
            LET occ == Occurrences(id)
            IN  (/\ Cardinality(occ) >= 2
                 /\ \A x, y \in occ : PostAt(x).trending = PostAt(y).trending) =>
                    LET t == PostAt(CHOOSE x \in occ : TRUE).trending
                    IN  /\ id \notin DOMAIN startData => QueuedFor(id) = 1
                        /\ (id \in DOMAIN startData /\ startData[id] = t) =>
                            QueuedFor(id) = 0

\* ---- C20

\* C20: no step of the running process removes an id from the store, and a
\* step changes the flag stored for an id only when detection is at a post of
\* that id and sets it to the flag of that post.
C20_StoreOnlyGrows ==
    [][pc' # "unstarted" =>
        /\ DOMAIN old_data \subseteq DOMAIN old_data'
        /\ \A id \in DOMAIN old_data :
            old_data'[id] # old_data[id] =>
                /\ pc = "detecting"
                /\ get_post_id(PostAt(detAt)) = id
                /\ PostAt(detAt).trending = old_data'[id]]_vars

\* A cycle with a failed fetch, a failed send and a failed save is over, and
\* an id the feeds did not return in it is stored as at the cycle's start.
C20_Witness ==
    /\ pc = "idle"
    /\ saves = << FALSE >>
    /\ \E src \in SrcSet : fetchFailed[src]
    /\ \E i \in 1..Len(sentLog) : sentLog[i].result = "failed"
    /\ \E id \in DOMAIN startData :
        /\ Occurrences(id) = {}
        /\ id \in DOMAIN old_data
        /\ old_data[id] = startData[id]

====
